---- MODULE Spec2Model ----
(***************************************************************************)
(* Model of library/oid.c (PolarSSL OID database): the sentinel-terminated *)
(* lookup tables, the generic matcher oid_descriptor_from_buf, the         *)
(* macro-generated accessors, and oid_get_numeric_string.                  *)
(*                                                                         *)
(* A state is one call site: the caller's variables before the call        *)
(* (pc = "ready") and after it returned (pc = "done").  A forward lookup   *)
(* may also be chained on the OID a reverse lookup has just returned       *)
(* (pc = "chained").                                                       *)
(***************************************************************************)
EXTENDS Integers, Sequences, FiniteSets, TLC

VARIABLES
    pc,        \* "ready" | "done" | "chained"
    op,        \* name of the function that was called ("none" before)
    oid,       \* the asn1_buf argument: [p |-> pointer, len |-> size_t]
    in_md,     \* md_alg argument of the reverse lookups
    in_pk,     \* pk_alg argument of oid_get_oid_by_sig_alg
    ret,       \* the int the call returned
    out1,      \* caller variable behind the first output parameter
    out2,      \* caller variable behind the second output parameter
    oid_str,   \* caller variable behind const char **oid_str
    visited,   \* byte offsets into the table at which the scan read an entry
    fault,     \* TRUE iff the scan read at an offset that holds no entry
    buf,       \* caller's character buffer, buf[i+1] is C's buf[i]
    size,      \* capacity of buf passed as size
    writes     \* C indices (relative to buf) of every byte the call stored

vars == <<pc, op, oid, in_md, in_pk, ret, out1, out2, oid_str, visited, fault,
          buf, size, writes>>

(***************************************************************************)
(* Pointers to C strings.  A string literal is the sequence of its bytes;  *)
(* the terminating NUL the compiler appends is implicit.                   *)
(***************************************************************************)
NULL == [null |-> TRUE, s |-> <<>>]

Str(bytes) == [null |-> FALSE, s |-> bytes]

\* strlen(): number of bytes before the first zero byte
strlen(s) ==
    IF \E k \in 1..Len(s) : s[k] = 0
    THEN (CHOOSE k \in 1..Len(s) : s[k] = 0 /\ \A j \in 1..(k-1) : s[j] # 0) - 1
    ELSE Len(s)

\* memcmp( a, b, len ) == 0, for a of at least len bytes
memcmp_eq(a, b, len) ==
    /\ Len(b) >= len
    /\ \A k \in 1..len : a[k] = b[k]

POLARSSL_ERR_OID_NOT_FOUND == -46

(***************************************************************************)
(* OID byte strings (polarssl/oid.h), DER content octets.                  *)
(***************************************************************************)
OID_RSA_COMPANY == <<42, 134, 72, 134, 247, 13>>
OID_GOV == <<96, 134, 72, 1, 101>>
OID_AT == <<85, 4>>
OID_ID_CE == <<85, 29>>
OID_KP == <<43, 6, 1, 5, 5, 7, 3>>
OID_PKCS1 == OID_RSA_COMPANY \o <<1, 1>>

OID_AT_CN == OID_AT \o <<3>>
OID_AT_COUNTRY == OID_AT \o <<6>>
OID_AT_LOCALITY == OID_AT \o <<7>>
OID_AT_STATE == OID_AT \o <<8>>
OID_AT_ORGANIZATION == OID_AT \o <<10>>
OID_AT_ORG_UNIT == OID_AT \o <<11>>
OID_PKCS9_EMAIL == OID_RSA_COMPANY \o <<1, 9, 1>>

OID_BASIC_CONSTRAINTS == OID_ID_CE \o <<19>>
OID_KEY_USAGE == OID_ID_CE \o <<15>>
OID_EXTENDED_KEY_USAGE == OID_ID_CE \o <<37>>
OID_SUBJECT_ALT_NAME == OID_ID_CE \o <<17>>
OID_NS_CERT_TYPE == <<96, 134, 72, 1, 134, 248, 66, 1, 1>>

OID_SERVER_AUTH == OID_KP \o <<1>>
OID_CLIENT_AUTH == OID_KP \o <<2>>
OID_CODE_SIGNING == OID_KP \o <<3>>
OID_EMAIL_PROTECTION == OID_KP \o <<4>>
OID_TIME_STAMPING == OID_KP \o <<8>>
OID_OCSP_SIGNING == OID_KP \o <<9>>

OID_PKCS1_RSA == OID_PKCS1 \o <<1>>
OID_PKCS1_MD2 == OID_PKCS1 \o <<2>>
OID_PKCS1_MD4 == OID_PKCS1 \o <<3>>
OID_PKCS1_MD5 == OID_PKCS1 \o <<4>>
OID_PKCS1_SHA1 == OID_PKCS1 \o <<5>>
OID_PKCS1_SHA224 == OID_PKCS1 \o <<14>>
OID_PKCS1_SHA256 == OID_PKCS1 \o <<11>>
OID_PKCS1_SHA384 == OID_PKCS1 \o <<12>>
OID_PKCS1_SHA512 == OID_PKCS1 \o <<13>>
OID_RSA_SHA_OBS == <<43, 14, 3, 2, 29>>

OID_DES_CBC == <<43, 14, 3, 2, 7>>
OID_DES_EDE3_CBC == OID_RSA_COMPANY \o <<3, 7>>

OID_DIGEST_ALG_MD2 == OID_RSA_COMPANY \o <<2, 2>>
OID_DIGEST_ALG_MD4 == OID_RSA_COMPANY \o <<2, 4>>
OID_DIGEST_ALG_MD5 == OID_RSA_COMPANY \o <<2, 5>>
OID_DIGEST_ALG_SHA1 == <<43, 14, 3, 2, 26>>
OID_DIGEST_ALG_SHA224 == OID_GOV \o <<3, 4, 2, 4>>
OID_DIGEST_ALG_SHA256 == OID_GOV \o <<3, 4, 2, 1>>
OID_DIGEST_ALG_SHA384 == OID_GOV \o <<3, 4, 2, 2>>
OID_DIGEST_ALG_SHA512 == OID_GOV \o <<3, 4, 2, 3>>

OID_PKCS12_PBE == OID_RSA_COMPANY \o <<1, 12, 1>>
OID_PKCS12_PBE_SHA1_DES3_EDE_CBC == OID_PKCS12_PBE \o <<3>>
OID_PKCS12_PBE_SHA1_DES2_EDE_CBC == OID_PKCS12_PBE \o <<4>>

(***************************************************************************)
(* Element types.  sizeof is in bytes for an LP64 build (pointers 8,       *)
(* int and enum 4, structs padded to 8).                                   *)
(***************************************************************************)
sizeof ==
    [ oid_descriptor_t     |-> 24,
      oid_x520_attr_t      |-> 32,
      oid_x509_ext_t       |-> 32,
      oid_sig_alg_t        |-> 32,
      oid_pk_alg_t         |-> 32,
      oid_cipher_alg_t     |-> 32,
      oid_md_alg_t         |-> 32,
      oid_pkcs12_pbe_alg_t |-> 32 ]

\* { asn1, name, description } of oid_descriptor_t, as the first member
\* of every element type
D(asn1, name, description) ==
    [asn1 |-> Str(asn1), name |-> name, description |-> description]

\* { NULL, NULL, NULL }
DNULL == [asn1 |-> NULL, name |-> "NULL", description |-> "NULL"]

oid_x520_attr_type ==
    [ type |-> "oid_x520_attr_t",
      rows |-> <<
        [descriptor |-> D(OID_AT_CN, "id-at-commonName", "Common Name"),
         short_name |-> "CN"],
        [descriptor |-> D(OID_AT_COUNTRY, "id-at-countryName", "Country"),
         short_name |-> "C"],
        [descriptor |-> D(OID_AT_LOCALITY, "id-at-locality", "Locality"),
         short_name |-> "L"],
        [descriptor |-> D(OID_AT_STATE, "id-at-state", "State"),
         short_name |-> "ST"],
        [descriptor |-> D(OID_AT_ORGANIZATION, "id-at-organizationName", "Organization"),
         short_name |-> "O"],
        [descriptor |-> D(OID_AT_ORG_UNIT, "id-at-organizationalUnitName", "Org Unit"),
         short_name |-> "OU"],
        [descriptor |-> D(OID_PKCS9_EMAIL, "emailAddress", "E-mail address"),
         short_name |-> "emailAddress"],
        [descriptor |-> DNULL, short_name |-> "NULL"] >> ]

oid_x509_ext ==
    [ type |-> "oid_x509_ext_t",
      rows |-> <<
        [descriptor |-> D(OID_BASIC_CONSTRAINTS, "id-ce-basicConstraints", "Basic Constraints"),
         ext_type |-> "EXT_BASIC_CONSTRAINTS"],
        [descriptor |-> D(OID_KEY_USAGE, "id-ce-keyUsage", "Key Usage"),
         ext_type |-> "EXT_KEY_USAGE"],
        [descriptor |-> D(OID_EXTENDED_KEY_USAGE, "id-ce-keyUsage", "Extended Key Usage"),
         ext_type |-> "EXT_EXTENDED_KEY_USAGE"],
        [descriptor |-> D(OID_SUBJECT_ALT_NAME, "id-ce-subjectAltName", "Subject Alt Name"),
         ext_type |-> "EXT_SUBJECT_ALT_NAME"],
        [descriptor |-> D(OID_NS_CERT_TYPE, "id-netscape-certtype", "Netscape Certificate Type"),
         ext_type |-> "EXT_NS_CERT_TYPE"],
        [descriptor |-> DNULL, ext_type |-> "0"] >> ]

\* the elements are bare oid_descriptor_t; they are wrapped in a
\* descriptor field here so that every table has the same row shape
oid_ext_key_usage ==
    [ type |-> "oid_descriptor_t",
      rows |-> <<
        [descriptor |-> D(OID_SERVER_AUTH, "id-kp-serverAuth", "TLS Web Server Authentication")],
        [descriptor |-> D(OID_CLIENT_AUTH, "id-kp-clientAuth", "TLS Web Client Authentication")],
        [descriptor |-> D(OID_CODE_SIGNING, "id-kp-codeSigning", "Code Signing")],
        [descriptor |-> D(OID_EMAIL_PROTECTION, "id-kp-emailProtection", "E-mail Protection")],
        [descriptor |-> D(OID_TIME_STAMPING, "id-kp-timeStamping", "Time Stamping")],
        [descriptor |-> D(OID_OCSP_SIGNING, "id-kp-OCSPSigning", "OCSP Signing")],
        [descriptor |-> DNULL] >> ]

oid_sig_alg ==
    [ type |-> "oid_sig_alg_t",
      rows |-> <<
        [descriptor |-> D(OID_PKCS1_MD2, "md2WithRSAEncryption", "RSA with MD2"),
         md_alg |-> "POLARSSL_MD_MD2", pk_alg |-> "POLARSSL_PK_RSA"],
        [descriptor |-> D(OID_PKCS1_MD4, "md4WithRSAEncryption", "RSA with MD4"),
         md_alg |-> "POLARSSL_MD_MD4", pk_alg |-> "POLARSSL_PK_RSA"],
        [descriptor |-> D(OID_PKCS1_MD5, "md5WithRSAEncryption", "RSA with MD5"),
         md_alg |-> "POLARSSL_MD_MD5", pk_alg |-> "POLARSSL_PK_RSA"],
        [descriptor |-> D(OID_PKCS1_SHA1, "sha-1WithRSAEncryption", "RSA with SHA1"),
         md_alg |-> "POLARSSL_MD_SHA1", pk_alg |-> "POLARSSL_PK_RSA"],
        [descriptor |-> D(OID_PKCS1_SHA224, "sha224WithRSAEncryption", "RSA with SHA-224"),
         md_alg |-> "POLARSSL_MD_SHA224", pk_alg |-> "POLARSSL_PK_RSA"],
        [descriptor |-> D(OID_PKCS1_SHA256, "sha256WithRSAEncryption", "RSA with SHA-256"),
         md_alg |-> "POLARSSL_MD_SHA256", pk_alg |-> "POLARSSL_PK_RSA"],
        [descriptor |-> D(OID_PKCS1_SHA384, "sha384WithRSAEncryption", "RSA with SHA-384"),
         md_alg |-> "POLARSSL_MD_SHA384", pk_alg |-> "POLARSSL_PK_RSA"],
        [descriptor |-> D(OID_PKCS1_SHA512, "sha512WithRSAEncryption", "RSA with SHA-512"),
         md_alg |-> "POLARSSL_MD_SHA512", pk_alg |-> "POLARSSL_PK_RSA"],
        [descriptor |-> D(OID_RSA_SHA_OBS, "sha-1WithRSAEncryption", "RSA with SHA1"),
         md_alg |-> "POLARSSL_MD_SHA1", pk_alg |-> "POLARSSL_PK_RSA"],
        [descriptor |-> DNULL,
         md_alg |-> "POLARSSL_MD_NONE", pk_alg |-> "POLARSSL_PK_NONE"] >> ]

oid_pk_alg ==
    [ type |-> "oid_pk_alg_t",
      rows |-> <<
        [descriptor |-> D(OID_PKCS1_RSA, "rsaEncryption", "RSA"),
         pk_alg |-> "POLARSSL_PK_RSA"],
        [descriptor |-> DNULL, pk_alg |-> "POLARSSL_PK_NONE"] >> ]

oid_cipher_alg ==
    [ type |-> "oid_cipher_alg_t",
      rows |-> <<
        [descriptor |-> D(OID_DES_CBC, "desCBC", "DES-CBC"),
         cipher_alg |-> "POLARSSL_CIPHER_DES_CBC"],
        [descriptor |-> D(OID_DES_EDE3_CBC, "des-ede3-cbc", "DES-EDE3-CBC"),
         cipher_alg |-> "POLARSSL_CIPHER_DES_EDE3_CBC"],
        [descriptor |-> DNULL, cipher_alg |-> "POLARSSL_CIPHER_NONE"] >> ]

oid_md_alg ==
    [ type |-> "oid_md_alg_t",
      rows |-> <<
        [descriptor |-> D(OID_DIGEST_ALG_MD2, "id-md2", "MD2"),
         md_alg |-> "POLARSSL_MD_MD2"],
        [descriptor |-> D(OID_DIGEST_ALG_MD4, "id-md4", "MD4"),
         md_alg |-> "POLARSSL_MD_MD4"],
        [descriptor |-> D(OID_DIGEST_ALG_MD5, "id-md5", "MD5"),
         md_alg |-> "POLARSSL_MD_MD5"],
        [descriptor |-> D(OID_DIGEST_ALG_SHA1, "id-sha1", "SHA-1"),
         md_alg |-> "POLARSSL_MD_SHA1"],
        [descriptor |-> D(OID_DIGEST_ALG_SHA1, "id-sha1", "SHA-1"),
         md_alg |-> "POLARSSL_MD_SHA1"],
        [descriptor |-> D(OID_DIGEST_ALG_SHA224, "id-sha224", "SHA-224"),
         md_alg |-> "POLARSSL_MD_SHA224"],
        [descriptor |-> D(OID_DIGEST_ALG_SHA256, "id-sha256", "SHA-256"),
         md_alg |-> "POLARSSL_MD_SHA256"],
        [descriptor |-> D(OID_DIGEST_ALG_SHA384, "id-sha384", "SHA-384"),
         md_alg |-> "POLARSSL_MD_SHA384"],
        [descriptor |-> D(OID_DIGEST_ALG_SHA512, "id-sha512", "SHA-512"),
         md_alg |-> "POLARSSL_MD_SHA512"],
        [descriptor |-> DNULL, md_alg |-> "POLARSSL_MD_NONE"] >> ]

oid_pkcs12_pbe_alg ==
    [ type |-> "oid_pkcs12_pbe_alg_t",
      rows |-> <<
        [descriptor |-> D(OID_PKCS12_PBE_SHA1_DES3_EDE_CBC,
                          "pbeWithSHAAnd3-KeyTripleDES-CBC", "PBE with SHA1 and 3-Key 3DES"),
         md_alg |-> "POLARSSL_MD_SHA1", cipher_alg |-> "POLARSSL_CIPHER_DES_EDE3_CBC"],
        [descriptor |-> D(OID_PKCS12_PBE_SHA1_DES2_EDE_CBC,
                          "pbeWithSHAAnd2-KeyTripleDES-CBC", "PBE with SHA1 and 2-Key 3DES"),
         md_alg |-> "POLARSSL_MD_SHA1", cipher_alg |-> "POLARSSL_CIPHER_DES_EDE_CBC"],
        [descriptor |-> DNULL,
         md_alg |-> "POLARSSL_MD_NONE", cipher_alg |-> "POLARSSL_CIPHER_NONE"] >> ]

(***************************************************************************)
(* Core generic function.  p is the byte offset of cur from struct_set;    *)
(* an offset that is not a multiple of the element size below the end of   *)
(* the array addresses no element.                                         *)
(***************************************************************************)
EntryAt(LIST, p) ==
    IF p % sizeof[LIST.type] = 0 /\ p \div sizeof[LIST.type] < Len(LIST.rows)
    THEN (p \div sizeof[LIST.type]) + 1
    ELSE 0

\* mutation: the lengths are not compared, any entry that is a prefix of
\* longer input, or of which the input is a prefix, matches
oid_matches_prefix(asn1, oidp, len) ==
    \A k \in 1..len : k <= Len(asn1.s) => asn1.s[k] = oidp.s[k]

\* mutation: only the lengths are compared
oid_matches_lenonly(asn1, oidp, len) ==
    strlen(asn1.s) = len

\* strlen( cur->asn1 ) == len && memcmp( cur->asn1, oid, len ) == 0
oid_matches(asn1, oidp, len) ==
    strlen(asn1.s) = len /\ memcmp_eq(asn1.s, oidp.s, len)

\* cur is the index of the returned element, 0 for a NULL return;
\* trace lists the offsets at which cur->asn1 was read
RECURSIVE descriptor_scan(_, _, _, _, _, _)
descriptor_scan(struct_set, struct_size, oidp, len, p, trace) ==
    LET e  == EntryAt(struct_set, p)
        tr == Append(trace, p)
    IN  IF e = 0
        THEN [cur |-> 0, trace |-> tr, fault |-> TRUE]
        ELSE LET asn1 == struct_set.rows[e].descriptor.asn1
             IN  IF asn1.null
                 THEN [cur |-> 0, trace |-> tr, fault |-> FALSE]
                 ELSE IF oid_matches(asn1, oidp, len)
                      THEN [cur |-> e, trace |-> tr, fault |-> FALSE]
                      ELSE descriptor_scan(struct_set, struct_size, oidp, len,
                                           p + struct_size, tr)

oid_descriptor_from_buf(struct_set, struct_size, oidp, len) ==
    IF oidp.null
    THEN [cur |-> 0, trace |-> <<>>, fault |-> FALSE]
    ELSE descriptor_scan(struct_set, struct_size, oidp, len, 0, <<>>)

\* mutation: the stride is that of the bare descriptor, not of TYPE_T
FN_OID_TYPED_FROM_ASN1_stride(LIST, o) ==
    oid_descriptor_from_buf(LIST, sizeof["oid_descriptor_t"], o.p, o.len)

\* oid_XXX_from_asn1()
FN_OID_TYPED_FROM_ASN1(LIST, o) ==
    oid_descriptor_from_buf(LIST, sizeof[LIST.type], o.p, o.len)

\* data->ATTR for the element at index e
Member(LIST, e, ATTR) ==
    IF LIST.type = "oid_descriptor_t"
    THEN LIST.rows[e].descriptor[ATTR]
    ELSE LIST.rows[e][ATTR]

(***************************************************************************)
(* Accessor macros.  a1, a2 are the values the caller's output variables   *)
(* hold when the call is made.                                             *)
(***************************************************************************)
FN_OID_GET_DESCRIPTOR_ATTR1(LIST, ATTR1, o, a1) ==
    LET data == FN_OID_TYPED_FROM_ASN1(LIST, o)
    IN  IF data.cur = 0
        THEN [ret |-> POLARSSL_ERR_OID_NOT_FOUND, out1 |-> a1,
              trace |-> data.trace, fault |-> data.fault]
        ELSE [ret |-> 0, out1 |-> LIST.rows[data.cur].descriptor[ATTR1],
              trace |-> data.trace, fault |-> data.fault]

FN_OID_GET_ATTR1(LIST, ATTR1, o, a1) ==
    LET data == FN_OID_TYPED_FROM_ASN1(LIST, o)
    IN  IF data.cur = 0
        THEN [ret |-> POLARSSL_ERR_OID_NOT_FOUND, out1 |-> a1,
              trace |-> data.trace, fault |-> data.fault]
        ELSE [ret |-> 0, out1 |-> Member(LIST, data.cur, ATTR1),
              trace |-> data.trace, fault |-> data.fault]

\* mutation: the outputs are cleared when nothing is found
FN_OID_GET_ATTR2_clear(LIST, ATTR1, ATTR2, o, a1, a2) ==
    LET data == FN_OID_TYPED_FROM_ASN1(LIST, o)
    IN  IF data.cur = 0
        THEN [ret |-> POLARSSL_ERR_OID_NOT_FOUND,
              out1 |-> LIST.rows[Len(LIST.rows)][ATTR1],
              out2 |-> LIST.rows[Len(LIST.rows)][ATTR2],
              trace |-> data.trace, fault |-> data.fault]
        ELSE [ret |-> 0,
              out1 |-> Member(LIST, data.cur, ATTR1),
              out2 |-> Member(LIST, data.cur, ATTR2),
              trace |-> data.trace, fault |-> data.fault]

FN_OID_GET_ATTR2(LIST, ATTR1, ATTR2, o, a1, a2) ==
    LET data == FN_OID_TYPED_FROM_ASN1(LIST, o)
    IN  IF data.cur = 0
        THEN [ret |-> POLARSSL_ERR_OID_NOT_FOUND, out1 |-> a1, out2 |-> a2,
              trace |-> data.trace, fault |-> data.fault]
        ELSE [ret |-> 0,
              out1 |-> Member(LIST, data.cur, ATTR1),
              out2 |-> Member(LIST, data.cur, ATTR2),
              trace |-> data.trace, fault |-> data.fault]

\* while( cur->descriptor.asn1 != NULL ) { if( ... ) return; cur++; }
\* ATTRS are the member names compared, vals the arguments they are
\* compared with
RECURSIVE oid_by_attr_loop(_, _, _, _, _)
oid_by_attr_loop(LIST, ATTRS, vals, p, trace) ==
    LET e  == EntryAt(LIST, p)
        tr == Append(trace, p)
    IN  IF e = 0
        THEN [cur |-> 0, trace |-> tr, fault |-> TRUE]
        ELSE IF LIST.rows[e].descriptor.asn1.null
             THEN [cur |-> 0, trace |-> tr, fault |-> FALSE]
             ELSE IF \A k \in 1..Len(ATTRS) : LIST.rows[e][ATTRS[k]] = vals[k]
                  THEN [cur |-> e, trace |-> tr, fault |-> FALSE]
                  ELSE oid_by_attr_loop(LIST, ATTRS, vals,
                                        p + sizeof[LIST.type], tr)

FN_OID_GET_OID_BY_ATTR1(LIST, ATTR1, v1, ostr) ==
    LET r == oid_by_attr_loop(LIST, <<ATTR1>>, <<v1>>, 0, <<>>)
    IN  IF r.cur = 0
        THEN [ret |-> POLARSSL_ERR_OID_NOT_FOUND, oid_str |-> ostr,
              trace |-> r.trace, fault |-> r.fault]
        ELSE [ret |-> 0, oid_str |-> LIST.rows[r.cur].descriptor.asn1,
              trace |-> r.trace, fault |-> r.fault]

\* mutation: only the first attribute is compared
FN_OID_GET_OID_BY_ATTR2_first(LIST, ATTR1, ATTR2, v1, v2, ostr) ==
    LET r == oid_by_attr_loop(LIST, <<ATTR1>>, <<v1>>, 0, <<>>)
    IN  IF r.cur = 0
        THEN [ret |-> POLARSSL_ERR_OID_NOT_FOUND, oid_str |-> ostr,
              trace |-> r.trace, fault |-> r.fault]
        ELSE [ret |-> 0, oid_str |-> LIST.rows[r.cur].descriptor.asn1,
              trace |-> r.trace, fault |-> r.fault]

FN_OID_GET_OID_BY_ATTR2(LIST, ATTR1, ATTR2, v1, v2, ostr) ==
    LET r == oid_by_attr_loop(LIST, <<ATTR1, ATTR2>>, <<v1, v2>>, 0, <<>>)
    IN  IF r.cur = 0
        THEN [ret |-> POLARSSL_ERR_OID_NOT_FOUND, oid_str |-> ostr,
              trace |-> r.trace, fault |-> r.fault]
        ELSE [ret |-> 0, oid_str |-> LIST.rows[r.cur].descriptor.asn1,
              trace |-> r.trace, fault |-> r.fault]

(***************************************************************************)
(* The generated functions.                                                *)
(***************************************************************************)
oid_get_attr_short_name(o, a1) ==
    FN_OID_GET_ATTR1(oid_x520_attr_type, "short_name", o, a1)

oid_get_x509_ext_type(o, a1) ==
    FN_OID_GET_ATTR1(oid_x509_ext, "ext_type", o, a1)

oid_get_extended_key_usage(o, a1) ==
    FN_OID_GET_ATTR1(oid_ext_key_usage, "description", o, a1)

oid_get_sig_alg_desc(o, a1) ==
    FN_OID_GET_DESCRIPTOR_ATTR1(oid_sig_alg, "description", o, a1)

oid_get_sig_alg(o, a1, a2) ==
    FN_OID_GET_ATTR2(oid_sig_alg, "md_alg", "pk_alg", o, a1, a2)

oid_get_oid_by_sig_alg(pk_alg, md_alg, ostr) ==
    FN_OID_GET_OID_BY_ATTR2(oid_sig_alg, "pk_alg", "md_alg", pk_alg, md_alg, ostr)

oid_get_pk_alg(o, a1) ==
    FN_OID_GET_ATTR1(oid_pk_alg, "pk_alg", o, a1)

oid_get_cipher_alg(o, a1) ==
    FN_OID_GET_ATTR1(oid_cipher_alg, "cipher_alg", o, a1)

oid_get_md_alg(o, a1) ==
    FN_OID_GET_ATTR1(oid_md_alg, "md_alg", o, a1)

oid_get_oid_by_md(md_alg, ostr) ==
    FN_OID_GET_OID_BY_ATTR1(oid_md_alg, "md_alg", md_alg, ostr)

oid_get_pkcs12_pbe_alg(o, a1, a2) ==
    FN_OID_GET_ATTR2(oid_pkcs12_pbe_alg, "md_alg", "cipher_alg", o, a1, a2)

(***************************************************************************)
(* oid_get_numeric_string.  Characters are one-character strings, NUL is   *)
(* the terminator '\0'.  st = [buf, w, p, n]: the buffer, the set of       *)
(* indices stored so far, the offset of p from buf, and n.                 *)
(***************************************************************************)
NUL == "NUL"

POLARSSL_ERR_DEBUG_BUF_TOO_SMALL == -2

\* sizeof(value), value being an unsigned int
SizeofValue == 4

\* 2^16: an unsigned int is kept as two 16-bit halves [hi, lo], its
\* arithmetic is modulo 2^32
HALF == 65536

Digit(d) == <<"0", "1", "2", "3", "4", "5", "6", "7", "8", "9">>[d + 1]

RECURSIVE DecStr(_)
DecStr(v) ==
    IF v < 10 THEN <<Digit(v)>> ELSE Append(DecStr(v \div 10), Digit(v % 10))

\* conversion %d of an int
FmtD(i) ==
    IF i >= 0 THEN DecStr(i)
    ELSE IF i = (-2147483647) - 1
         THEN <<"-", "2", "1", "4", "7", "4", "8", "3", "6", "4", "8">>
         ELSE <<"-">> \o DecStr(-i)

\* an unsigned int passed for %d is read back as an int
AsInt(value) ==
    IF value.hi < HALF \div 2
    THEN (value.hi * HALF) + value.lo
    ELSE ((value.hi - HALF) * HALF) + value.lo

\* a store to p[k]; an index outside the array changes no element of it
Store(st, k, ch) ==
    [st EXCEPT !.buf = IF (st.p + k) \in 0..(Len(st.buf) - 1)
                       THEN [st.buf EXCEPT ![st.p + k + 1] = ch]
                       ELSE st.buf,
               !.w = st.w \cup {st.p + k}]

RECURSIVE StoreAll(_, _, _)
StoreAll(st, text, k) ==
    IF k > Len(text) THEN st
    ELSE StoreAll(Store(st, k - 1, text[k]), text, k + 1)

\* snprintf( p, n, ... ) producing text: at most n - 1 characters and a
\* terminator are stored, nothing at all when n = 0; returns the length
\* of the whole text
snprintf(st, text) ==
    IF st.n = 0
    THEN [st |-> st, ret |-> Len(text)]
    ELSE LET k == IF Len(text) < st.n - 1 THEN Len(text) ELSE st.n - 1
         IN  [st  |-> Store(StoreAll(st, SubSeq(text, 1, k), 1), k, NUL),
              ret |-> Len(text)]

\* SAFE_SNPRINTF(): n - 1 is computed in size_t; for n = 0 it is SIZE_MAX
\* and p + SIZE_MAX addresses the byte before p
SAFE_SNPRINTF(st, r) ==
    IF r = -1
    THEN [returned |-> TRUE, ret |-> -1, st |-> st]
    ELSE IF r > st.n
         THEN [returned |-> TRUE, ret |-> POLARSSL_ERR_DEBUG_BUF_TOO_SMALL,
               st |-> Store(st, st.n - 1, NUL)]
         ELSE [returned |-> FALSE, ret |-> 0,
               st |-> [st EXCEPT !.n = st.n - r, !.p = st.p + r]]

\* mutation: the continuation bit is not masked off
Accumulate_nomask(value, byte) ==
    [hi |-> ((value.hi * 128) + (value.lo \div 512)) % HALF,
     lo |-> (((value.lo * 128) % HALF) + byte) % HALF]

\* value <<= 7; value += oid->p[i] & 0x7F;
Accumulate(value, byte) ==
    [hi |-> ((value.hi * 128) + (value.lo \div 512)) % HALF,
     lo |-> ((value.lo * 128) % HALF) + (byte % 128)]

\* value = 0
Zero == [hi |-> 0, lo |-> 0]

\* for( i = 1; i < oid->len; i++ ) { ... } return( (int) ( size - n ) );
RECURSIVE arcs_loop(_, _, _, _, _)
arcs_loop(o, sz, i, value, st) ==
    IF ~(i < o.len)
    THEN [ret |-> sz - st.n, buf |-> st.buf, writes |-> st.w]
    ELSE LET v == Accumulate(value, o.p.s[i + 1])
         IN  IF o.p.s[i + 1] \div 128 = 0
             THEN LET r == snprintf(st, <<".">> \o FmtD(AsInt(v)))
                      c == SAFE_SNPRINTF(r.st, r.ret)
                  IN  IF c.returned
                      THEN [ret |-> c.ret, buf |-> c.st.buf, writes |-> c.st.w]
                      ELSE arcs_loop(o, sz, i + 1, Zero, c.st)
             ELSE arcs_loop(o, sz, i + 1, v, st)

\* if( oid->len > sizeof(value) ) return ...; value = 0; for ...
overflow_guard(o, sz, st) ==
    IF o.len > SizeofValue
    THEN [ret |-> POLARSSL_ERR_DEBUG_BUF_TOO_SMALL, buf |-> st.buf, writes |-> st.w]
    ELSE arcs_loop(o, sz, 1, Zero, st)

oid_get_numeric_string(b, sz, o) ==
    LET st0 == [buf |-> b, w |-> {}, p |-> 0, n |-> sz]
    IN  IF o.len > 0
        THEN LET r == snprintf(st0, FmtD(o.p.s[1] \div 40) \o <<".">>
                                    \o FmtD(o.p.s[1] % 40))
                 c == SAFE_SNPRINTF(r.st, r.ret)
             IN  IF c.returned
                 THEN [ret |-> c.ret, buf |-> c.st.buf, writes |-> c.st.w]
                 ELSE overflow_guard(o, sz, c.st)
        ELSE overflow_guard(o, sz, st0)

(***************************************************************************)
(* Callers.  Bounds of the inputs.                                         *)
(***************************************************************************)
\* longest OID handed to oid_get_numeric_string, apart from rsaEncryption
MaxLen == 5

\* largest small buffer capacity tried
MaxSize == 14

\* a capacity that holds every rendering tried
BigSize == MaxSize + 10

AsnBuf(bytes) == [p |-> Str(bytes), len |-> Len(bytes)]

\* an asn1_buf that was never filled in: p = NULL, len = 0
NullBuf == [p |-> NULL, len |-> 0]

AllTables ==
    {oid_x520_attr_type, oid_x509_ext, oid_ext_key_usage, oid_sig_alg,
     oid_pk_alg, oid_cipher_alg, oid_md_alg, oid_pkcs12_pbe_alg}

\* raw OIDs of all tables
KnownOids ==
    UNION { { t.rows[i].descriptor.asn1.s : i \in 1..(Len(t.rows) - 1) } :
            t \in AllTables }

\* every known OID, the empty buffers, and OIDs that are in no table:
\* a proper prefix of entries, an entry with one more byte, an entry with
\* its last byte changed
OidInputs ==
    { AsnBuf(b) : b \in KnownOids }
    \cup { NullBuf, AsnBuf(<<>>), AsnBuf(<<42>>), AsnBuf(OID_PKCS1), AsnBuf(OID_AT),
           AsnBuf(OID_PKCS1_RSA \o <<1>>), AsnBuf(OID_AT \o <<99>>),
           AsnBuf(<<43, 14, 3, 2, 99>>) }

MdInputs ==
    {"POLARSSL_MD_NONE", "POLARSSL_MD_MD2", "POLARSSL_MD_MD4", "POLARSSL_MD_MD5",
     "POLARSSL_MD_SHA1", "POLARSSL_MD_SHA224", "POLARSSL_MD_SHA256",
     "POLARSSL_MD_SHA384", "POLARSSL_MD_SHA512"}

PkInputs == {"POLARSSL_PK_NONE", "POLARSSL_PK_RSA", "POLARSSL_PK_ECDSA"}

\* what the caller's output variables may hold before a call
PriorOut == {"unset", "POLARSSL_MD_SHA1"}

PriorOidStr == {NULL, Str(OID_RSA_SHA_OBS)}

FirstBytes == {0, 42, 255}

RestBytes == {0, 1, 127, 128, 255}

NumericInputs ==
    { AsnBuf(<<>>), AsnBuf(OID_PKCS1_RSA) }
    \cup UNION { { AsnBuf(<<f>> \o t) : f \in FirstBytes, t \in [1..(k - 1) -> RestBytes] } :
                 k \in 1..MaxLen }

\* an uninitialised buffer holds arbitrary characters, a cleared one NULs
Fills == {"X", NUL}

Init ==
    /\ pc = "ready"
    /\ op = "none"
    /\ oid = NullBuf
    /\ in_md = "POLARSSL_MD_NONE"
    /\ in_pk = "POLARSSL_PK_NONE"
    /\ ret = 0
    /\ out1 \in PriorOut
    /\ out2 \in PriorOut
    /\ oid_str \in PriorOidStr
    /\ visited = <<>>
    /\ fault = FALSE
    /\ buf = <<>>
    /\ size = 0
    /\ writes = {}

InitCodec ==
    /\ pc = "ready"
    /\ op = "none"
    /\ oid = NullBuf
    /\ in_md = "POLARSSL_MD_NONE"
    /\ in_pk = "POLARSSL_PK_NONE"
    /\ ret = 0
    /\ out1 = "unset"
    /\ out2 = "unset"
    /\ oid_str = NULL
    /\ visited = <<>>
    /\ fault = FALSE
    /\ size \in (0..MaxSize) \cup {BigSize}
    /\ \E f \in Fills : buf = [i \in 1..size |-> f]
    /\ writes = {}

\* the OIDs a caller passes to a forward lookup: any input on a first
\* call, or the string the reverse lookup rev has just returned
CallerOids(rev) ==
    IF pc = "ready" THEN OidInputs
    ELSE IF pc = "done" /\ op = rev /\ ret = 0
         THEN {[p |-> oid_str, len |-> strlen(oid_str.s)]}
         ELSE {}

Returned(name, o, r) ==
    /\ pc' = IF pc = "ready" THEN "done" ELSE "chained"
    /\ op' = name
    /\ oid' = o
    /\ ret' = r.ret
    /\ visited' = r.trace
    /\ fault' = r.fault
    /\ UNCHANGED <<buf, size, writes>>

Forward1(name, o, r) ==
    /\ Returned(name, o, r)
    /\ out1' = r.out1
    /\ UNCHANGED <<in_md, in_pk, out2, oid_str>>

Forward2(name, o, r) ==
    /\ Returned(name, o, r)
    /\ out1' = r.out1
    /\ out2' = r.out2
    /\ UNCHANGED <<in_md, in_pk, oid_str>>

Call_oid_get_attr_short_name ==
    \E o \in CallerOids("none") :
        Forward1("oid_get_attr_short_name", o, oid_get_attr_short_name(o, out1))

Call_oid_get_x509_ext_type ==
    \E o \in CallerOids("none") :
        Forward1("oid_get_x509_ext_type", o, oid_get_x509_ext_type(o, out1))

Call_oid_get_extended_key_usage ==
    \E o \in CallerOids("none") :
        Forward1("oid_get_extended_key_usage", o, oid_get_extended_key_usage(o, out1))

Call_oid_get_sig_alg_desc ==
    \E o \in CallerOids("oid_get_oid_by_sig_alg") :
        Forward1("oid_get_sig_alg_desc", o, oid_get_sig_alg_desc(o, out1))

Call_oid_get_sig_alg ==
    \E o \in CallerOids("oid_get_oid_by_sig_alg") :
        Forward2("oid_get_sig_alg", o, oid_get_sig_alg(o, out1, out2))

Call_oid_get_pk_alg ==
    \E o \in CallerOids("none") :
        Forward1("oid_get_pk_alg", o, oid_get_pk_alg(o, out1))

Call_oid_get_cipher_alg ==
    \E o \in CallerOids("none") :
        Forward1("oid_get_cipher_alg", o, oid_get_cipher_alg(o, out1))

Call_oid_get_md_alg ==
    \E o \in CallerOids("oid_get_oid_by_md") :
        Forward1("oid_get_md_alg", o, oid_get_md_alg(o, out1))

Call_oid_get_pkcs12_pbe_alg ==
    \E o \in CallerOids("none") :
        Forward2("oid_get_pkcs12_pbe_alg", o, oid_get_pkcs12_pbe_alg(o, out1, out2))

Call_oid_get_oid_by_sig_alg ==
    /\ pc = "ready"
    /\ \E pk \in PkInputs, md \in MdInputs :
        LET r == oid_get_oid_by_sig_alg(pk, md, oid_str)
        IN  /\ Returned("oid_get_oid_by_sig_alg", oid, r)
            /\ in_pk' = pk
            /\ in_md' = md
            /\ oid_str' = r.oid_str
            /\ UNCHANGED <<out1, out2>>

Call_oid_get_oid_by_md ==
    /\ pc = "ready"
    /\ \E md \in MdInputs :
        LET r == oid_get_oid_by_md(md, oid_str)
        IN  /\ Returned("oid_get_oid_by_md", oid, r)
            /\ in_md' = md
            /\ oid_str' = r.oid_str
            /\ UNCHANGED <<in_pk, out1, out2>>

Call_oid_get_numeric_string ==
    /\ pc = "ready"
    /\ \E o \in NumericInputs :
        LET r == oid_get_numeric_string(buf, size, o)
        IN  /\ pc' = "done"
            /\ op' = "oid_get_numeric_string"
            /\ oid' = o
            /\ ret' = r.ret
            /\ buf' = r.buf
            /\ writes' = r.writes
            /\ UNCHANGED <<in_md, in_pk, out1, out2, oid_str, visited, fault, size>>

Next ==
    \/ Call_oid_get_attr_short_name
    \/ Call_oid_get_x509_ext_type
    \/ Call_oid_get_extended_key_usage
    \/ Call_oid_get_sig_alg_desc
    \/ Call_oid_get_sig_alg
    \/ Call_oid_get_oid_by_sig_alg
    \/ Call_oid_get_pk_alg
    \/ Call_oid_get_cipher_alg
    \/ Call_oid_get_md_alg
    \/ Call_oid_get_oid_by_md
    \/ Call_oid_get_pkcs12_pbe_alg

Spec == Init /\ [][Next]_vars

NextCodec == Call_oid_get_numeric_string

SpecCodec == InitCodec /\ [][NextCodec]_vars

(***************************************************************************)
(* Properties of oid_get_numeric_string (specification SpecCodec).         *)
(***************************************************************************)
NumericDone == pc = "done" /\ op = "oid_get_numeric_string"

\* the buffer holds exactly the C string text: its characters followed by
\* the terminator
HoldsString(b, text) ==
    /\ Len(b) > Len(text)
    /\ SubSeq(b, 1, Len(text)) = text
    /\ b[Len(text) + 1] = NUL

RECURSIVE Pow128(_)
Pow128(e) == IF e = 0 THEN 1 ELSE 128 * Pow128(e - 1)

RECURSIVE SumGroup(_, _, _)
SumGroup(b, k, last) ==
    IF k > last THEN 0
    ELSE ((b[k] % 128) * Pow128(last - k)) + SumGroup(b, k + 1, last)

\* first byte of the group that ends at index last: the byte after the
\* previous byte with the high bit clear, or the second byte of the OID
GroupStart(b, last) ==
    LET ends == {j \in 2..(last - 1) : b[j] < 128}
    IN  IF ends = {} THEN 2
        ELSE (CHOOSE j \in ends : \A x \in ends : x <= j) + 1

RECURSIVE ArcText(_, _)
ArcText(b, i) ==
    IF i > Len(b) THEN <<>>
    ELSE (IF b[i] < 128
          THEN <<".">> \o DecStr(SumGroup(b, GroupStart(b, i), i))
          ELSE <<>>) \o ArcText(b, i + 1)

\* the complete dotted rendering of a non-empty OID
Rendering(b) ==
    DecStr(b[1] \div 40) \o <<".">> \o DecStr(b[1] % 40) \o ArcText(b, 2)

RsaText ==
    <<"1", ".", "2", ".", "8", "4", "0", ".", "1", "1", "3", "5", "4", "9",
      ".", "1", ".", "1", ".", "1">>

\* C1: called on the 9-byte rsaEncryption OID with a buffer large enough
\* for the text, oid_get_numeric_string succeeds and leaves exactly
\* "1.2.840.113549.1.1.1" in the buffer.
C1_RsaEncryptionRendered ==
    (NumericDone /\ oid = AsnBuf(OID_PKCS1_RSA) /\ size > Len(RsaText))
        => (ret >= 0 /\ HoldsString(buf, RsaText))

\* C2: for every OID and every capacity, every byte the call stores lies at
\* an index in 0..size-1 of the caller's buffer.
C2_WritesInsideBuffer ==
    NumericDone => writes \subseteq 0..(size - 1)

\* C3: for an OID of 1 to 4 bytes, a capacity smaller than the complete
\* rendering requires gives BufferTooSmall, and a successful return reports
\* the length of the complete rendering, which is then in the buffer.
C3_TruncationReported ==
    (NumericDone /\ oid.len \in 1..SizeofValue)
        => /\ (size < Len(Rendering(oid.p.s)) + 1
                  => ret = POLARSSL_ERR_DEBUG_BUF_TOO_SMALL)
           /\ (ret >= 0
                  => /\ ret = Len(Rendering(oid.p.s))
                     /\ HoldsString(buf, Rendering(oid.p.s)))

\* C6: called on an OID of length 0 with a capacity of at least 1, the call
\* returns 0 and the buffer then holds the empty string.
C6_EmptyOidEmptyString ==
    (NumericDone /\ oid.len = 0 /\ size >= 1)
        => (ret = 0 /\ buf[1] = NUL)

\* C10: for an OID of 1 to 4 bytes and a buffer large enough, the call
\* succeeds and the buffer holds "<byte0 / 40>.<byte0 % 40>" followed by
\* one ".<v>" per group of bytes ending in a byte with the high bit clear,
\* v the big-endian base-128 value of the group; a trailing unterminated
\* group renders nothing.
C10_ArcsRendered ==
    (NumericDone /\ oid.len \in 1..SizeofValue
                 /\ size > Len(Rendering(oid.p.s)))
        => (ret >= 0 /\ HoldsString(buf, Rendering(oid.p.s)))

\* a two-byte arc followed by an unterminated group, rendered "1.2.16383"
C10_Witness ==
    /\ NumericDone
    /\ oid = AsnBuf(<<42, 255, 127, 128>>)
    /\ ret = 9
    /\ HoldsString(buf, <<"1", ".", "2", ".", "1", "6", "3", "8", "3">>)

(***************************************************************************)
(* Properties of the lookups (specification Spec).                         *)
(***************************************************************************)
SingleOps ==
    {"oid_get_attr_short_name", "oid_get_x509_ext_type",
     "oid_get_extended_key_usage", "oid_get_sig_alg_desc", "oid_get_pk_alg",
     "oid_get_cipher_alg", "oid_get_md_alg"}

DualOps == {"oid_get_sig_alg", "oid_get_pkcs12_pbe_alg"}

ForwardOps == SingleOps \cup DualOps

ReverseOps == {"oid_get_oid_by_sig_alg", "oid_get_oid_by_md"}

TableOf(name) ==
    CASE name = "oid_get_attr_short_name"    -> oid_x520_attr_type
      [] name = "oid_get_x509_ext_type"      -> oid_x509_ext
      [] name = "oid_get_extended_key_usage" -> oid_ext_key_usage
      [] name = "oid_get_sig_alg_desc"       -> oid_sig_alg
      [] name = "oid_get_sig_alg"            -> oid_sig_alg
      [] name = "oid_get_oid_by_sig_alg"     -> oid_sig_alg
      [] name = "oid_get_pk_alg"             -> oid_pk_alg
      [] name = "oid_get_cipher_alg"         -> oid_cipher_alg
      [] name = "oid_get_md_alg"             -> oid_md_alg
      [] name = "oid_get_oid_by_md"          -> oid_md_alg
      [] name = "oid_get_pkcs12_pbe_alg"     -> oid_pkcs12_pbe_alg

\* the tag an accessor delivers through its first output parameter
Tag1(name, row) ==
    CASE name = "oid_get_attr_short_name"    -> row.short_name
      [] name = "oid_get_x509_ext_type"      -> row.ext_type
      [] name = "oid_get_extended_key_usage" -> row.descriptor.description
      [] name = "oid_get_sig_alg_desc"       -> row.descriptor.description
      [] name = "oid_get_sig_alg"            -> row.md_alg
      [] name = "oid_get_pk_alg"             -> row.pk_alg
      [] name = "oid_get_cipher_alg"         -> row.cipher_alg
      [] name = "oid_get_md_alg"             -> row.md_alg
      [] name = "oid_get_pkcs12_pbe_alg"     -> row.md_alg

\* and through its second one
Tag2(name, row) ==
    CASE name = "oid_get_sig_alg"            -> row.pk_alg
      [] name = "oid_get_pkcs12_pbe_alg"     -> row.cipher_alg

\* indices of the entries before the sentinel
Entries(T) == 1..(Len(T.rows) - 1)

Lowest(S) == CHOOSE i \in S : \A j \in S : i <= j

\* entries whose raw OID is byte for byte the buffer o
RawEqual(T, o) ==
    IF o.p.null THEN {}
    ELSE {i \in Entries(T) : T.rows[i].descriptor.asn1.s = o.p.s}

\* entries carrying the tags a reverse lookup was asked for
TagEqual(name, T, md, pk) ==
    IF name = "oid_get_oid_by_md"
    THEN {i \in Entries(T) : T.rows[i].md_alg = md}
    ELSE {i \in Entries(T) : T.rows[i].md_alg = md /\ T.rows[i].pk_alg = pk}

Called == pc \in {"done", "chained"}

\* C4: oid_get_oid_by_sig_alg returns the raw OID of the lowest-index entry
\* of oid_sig_alg whose pk_alg and md_alg both equal the arguments, NotFound
\* exactly when no entry has both, and OID_PKCS1_SHA1, never
\* OID_RSA_SHA_OBS, for (RSA, SHA1).
C4_SigAlgFirstMatch ==
    (Called /\ op = "oid_get_oid_by_sig_alg")
        => LET m == TagEqual(op, oid_sig_alg, in_md, in_pk)
           IN  /\ (m = {}) <=> (ret = POLARSSL_ERR_OID_NOT_FOUND)
               /\ m # {} => /\ ret = 0
                            /\ oid_str = oid_sig_alg.rows[Lowest(m)].descriptor.asn1
               /\ (in_pk = "POLARSSL_PK_RSA" /\ in_md = "POLARSSL_MD_SHA1")
                      => /\ ret = 0
                         /\ oid_str = Str(OID_PKCS1_SHA1)
                         /\ oid_str # Str(OID_RSA_SHA_OBS)

\* the caller's oid_str held the obsolete OID and now holds the modern one
C4_Witness ==
    /\ pc = "done"
    /\ op = "oid_get_oid_by_sig_alg"
    /\ in_pk = "POLARSSL_PK_RSA"
    /\ in_md = "POLARSSL_MD_SHA1"
    /\ ret = 0
    /\ oid_str = Str(OID_PKCS1_SHA1)
    /\ visited = <<0, 32, 64, 96>>

\* C5: forward lookup of every entry's raw OID succeeds and returns that
\* entry's tag(s); reverse lookup of an entry's tag(s) succeeds and returns
\* the raw OID of the first entry carrying them; forward lookup of the
\* reverse-lookup result gives back the tag(s) asked for.
C5_ForwardReverseAgree ==
    /\ (Called /\ op \in ForwardOps)
          => \A i \in RawEqual(TableOf(op), oid) :
                /\ ret = 0
                /\ out1 = Tag1(op, TableOf(op).rows[i])
                /\ op \in DualOps => out2 = Tag2(op, TableOf(op).rows[i])
    /\ (pc = "done" /\ op \in ReverseOps)
          => LET m == TagEqual(op, TableOf(op), in_md, in_pk)
             IN  m # {} => /\ ret = 0
                           /\ oid_str = TableOf(op).rows[Lowest(m)].descriptor.asn1
    /\ (pc = "chained" /\ op = "oid_get_md_alg")
          => (ret = 0 /\ out1 = in_md)
    /\ (pc = "chained" /\ op = "oid_get_sig_alg")
          => (ret = 0 /\ out1 = in_md /\ out2 = in_pk)

\* SHA384 was looked up in the digest table, and the OID that came back was
\* looked up again and gave SHA384
C5_Witness ==
    /\ pc = "chained"
    /\ op = "oid_get_md_alg"
    /\ in_md = "POLARSSL_MD_SHA384"
    /\ oid = AsnBuf(OID_DIGEST_ALG_SHA384)
    /\ ret = 0
    /\ out1 = "POLARSSL_MD_SHA384"

\* C7: every forward accessor called with an OID buffer of length 0 returns
\* NotFound.
C7_EmptyOidNotFound ==
    (Called /\ op \in ForwardOps /\ oid.len = 0)
        => ret = POLARSSL_ERR_OID_NOT_FOUND

\* a non-null, zero-length buffer was compared with every digest entry
C7_Witness ==
    /\ pc = "done"
    /\ op = "oid_get_md_alg"
    /\ oid = AsnBuf(<<>>)
    /\ ret = POLARSSL_ERR_OID_NOT_FOUND
    /\ Len(visited) = Len(oid_md_alg.rows)

\* C8: a forward lookup returns 0 or NotFound; when a dual-attribute
\* accessor returns 0 both outputs are those of the first entry whose raw
\* OID equals the input; when a forward accessor returns NotFound the
\* caller's output variables are what they were before the call.
C8_AllOrNothing ==
    [][ op' \in ForwardOps
           => /\ ret' \in {0, POLARSSL_ERR_OID_NOT_FOUND}
              /\ ret' = POLARSSL_ERR_OID_NOT_FOUND
                    => (out1' = out1 /\ out2' = out2)
              /\ (ret' = 0 /\ op' \in DualOps)
                    => /\ RawEqual(TableOf(op'), oid') # {}
                       /\ out1' = Tag1(op', TableOf(op').rows[
                                     Lowest(RawEqual(TableOf(op'), oid'))])
                       /\ out2' = Tag2(op', TableOf(op').rows[
                                     Lowest(RawEqual(TableOf(op'), oid'))]) ]_vars

\* oid_get_sig_alg found nothing and the two outputs kept their different
\* earlier values
C8_Witness ==
    /\ pc = "done"
    /\ op = "oid_get_sig_alg"
    /\ oid = AsnBuf(OID_PKCS1)
    /\ ret = POLARSSL_ERR_OID_NOT_FOUND
    /\ out1 = "POLARSSL_MD_SHA1"
    /\ out2 = "unset"

\* does the entry satisfy the condition the scan of the call tests
ScanMatch(row) ==
    IF op \in ForwardOps
    THEN /\ Len(row.descriptor.asn1.s) = oid.len
         /\ row.descriptor.asn1.s = oid.p.s
    ELSE IF op = "oid_get_oid_by_md"
         THEN row.md_alg = in_md
         ELSE row.pk_alg = in_pk /\ row.md_alg = in_md

\* C9: a scan reads the entries in declaration order, one element size
\* apart, reads nothing beyond the sentinel, and returns the first match
\* or, on reaching the sentinel, not-found.
C9_ScanStopsAtSentinel ==
    (Called /\ op \in ForwardOps \cup ReverseOps)
        => LET T == TableOf(op)
               n == Len(visited)
           IN  /\ ~fault
               /\ n <= Len(T.rows)
               /\ \A k \in 1..n : visited[k] = (k - 1) * sizeof[T.type]
               /\ \A k \in 1..(n - 1) :
                     /\ ~T.rows[k].descriptor.asn1.null
                     /\ ~ScanMatch(T.rows[k])
               /\ ret = 0 => /\ n >= 1
                             /\ ~T.rows[n].descriptor.asn1.null
                             /\ ScanMatch(T.rows[n])
               /\ ret # 0 => /\ ret = POLARSSL_ERR_OID_NOT_FOUND
                             /\ \/ (op \in ForwardOps /\ oid.p.null /\ n = 0)
                                \/ (n = Len(T.rows)
                                      /\ T.rows[n].descriptor.asn1.null)

\* an OID of no table was compared with every element of a table of 32-byte
\* elements, the sentinel being the last one read
C9_Witness ==
    /\ pc = "done"
    /\ op = "oid_get_cipher_alg"
    /\ oid = AsnBuf(<<43, 14, 3, 2, 99>>)
    /\ ret = POLARSSL_ERR_OID_NOT_FOUND
    /\ visited = <<0, 32, 64>>

====
